---- MODULE Spec2Model ----
(***************************************************************************)
(* A model of the NSW crime RAG system: the retrieval pipeline             *)
(* (src/rag_pipeline.py, class NSWCrimeRAGPipeline) and the scoring        *)
(* functions of its evaluator (src/evaluation_framework.py, class          *)
(* RAGEvaluator).                                                          *)
(*                                                                         *)
(* The pipeline is a state machine over the object's two fields            *)
(* (vectorstore, qa_chain), the persisted Chroma directory "chroma_db"     *)
(* and the corpus file.  Every method call is one action; the point at     *)
(* which a call may raise is an input of the action.                       *)
(*                                                                         *)
(* Library behaviour the code relies on (langchain_community Chroma):      *)
(*  - constructing a Chroma object with a persist_directory creates the    *)
(*    directory and gets-or-creates the collection "langchain";            *)
(*  - Chroma.from_documents constructs such an object, embeds all texts,   *)
(*    then adds them under fresh ids to that collection: entries already   *)
(*    in the collection stay;                                              *)
(*  - every Chroma object opened on the directory sees the same            *)
(*    collection.                                                          *)
(***************************************************************************)
EXTENDS Integers, Sequences, FiniteSets, TLC

(***************************************************************************)
(* Bounds of the model.                                                    *)
(***************************************************************************)
MaxIndex == 5
MaxFragments == 3
MaxKeywords == 2
MaxSources == 2
MaxExpected == 2
MaxRuns == 2

(***************************************************************************)
(* Program constants.                                                      *)
(***************************************************************************)
chunk_size == 1000
chunk_overlap == 200
search_k == 4

VARIABLES
    corpus,            \* the records of the corpus file
    dirExists,         \* os.path.exists("chroma_db")
    index,             \* the entries of the persisted collection, in insertion order
    vectorstore,       \* self.vectorstore: "None" or "Store"
    qa_chain,          \* self.qa_chain: "None" or "Chain"
    storeHasLen,       \* whether the library's Chroma defines __len__
    last,              \* the last call and its outcome
    answer,            \* scoring input: the answer text
    expected_keywords, \* scoring input: gt_data['expected_keywords']
    source_documents,  \* scoring input: result['source_documents']
    expected_sources,  \* scoring input: gt_data['expected_sources']
    score,             \* the last scoring call and what it returned
    evaluation_results, \* RAGEvaluator.evaluation_results
    runState,          \* the position of run_evaluation's loop and its history
    report,            \* what the last generate_report returned
    saved,             \* what the last save_results wrote
    main,              \* the position of the evaluation entry point
    averages,          \* input of _generate_recommendations
    failing            \* the benchmark items whose try block raises

pipeVars == <<corpus, dirExists, index, vectorstore, qa_chain, storeHasLen, last>>

evalVars == <<answer, expected_keywords, source_documents, expected_sources, score>>

runVars == <<evaluation_results, runState, report, saved, main, averages, failing>>

vars == <<pipeVars, evalVars, runVars>>

(***************************************************************************)
(* Sequence helpers.                                                       *)
(***************************************************************************)
Range(s) == {s[i] : i \in 1..Len(s)}

Prefix(s, n) == SubSeq(s, 1, n)

RECURSIVE Flatten(_)
Flatten(ss) == IF ss = <<>> THEN <<>> ELSE Head(ss) \o Flatten(Tail(ss))

(***************************************************************************)
(* The corpus: documents {content, metadata}.  A document's content is     *)
(* represented by its name and its length in characters.                   *)
(***************************************************************************)
DocPool ==
    { [name |-> "a", size |-> 300,  lga |-> "Greater Sydney"],
      [name |-> "b", size |-> 1500, lga |-> "NSW Regional"] }

\* the corpus files: the records of DocPool, some or all, in any order
Corpora ==
    { c \in UNION {[1..n -> DocPool] : n \in 1..Cardinality(DocPool)} :
        \A i, j \in 1..Len(c) : i # j => c[i] # c[j] }

\* load_documents: one Document per record of the file, in file order.
load_documents(file) ==
    [i \in 1..Len(file) |->
        [page_content |-> [name |-> file[i].name, size |-> file[i].size],
         metadata |-> [lga |-> file[i].lga]]]

(***************************************************************************)
(* RecursiveCharacterTextSplitter(chunk_size, chunk_overlap): windows of   *)
(* at most chunk_size characters, successive windows overlapping by        *)
(* chunk_overlap.  A chunk is the window [start, start + len) of its       *)
(* document and inherits the document's metadata.                          *)
(***************************************************************************)
SplitText_Whole(size, start) == << [start |-> start, len |-> size - start] >>

RECURSIVE SplitText(_, _)
SplitText(size, start) ==
    IF size - start <= chunk_size
    THEN << [start |-> start, len |-> size - start] >>
    ELSE << [start |-> start, len |-> chunk_size] >>
         \o SplitText(size, start + (chunk_size - chunk_overlap))

SplitDocument(doc) ==
    LET ws == SplitText(doc.page_content.size, 0)
    IN  [i \in 1..Len(ws) |->
            [doc |-> doc.page_content.name, start |-> ws[i].start,
             len |-> ws[i].len, metadata |-> doc.metadata]]

split_documents(docs) == Flatten([i \in 1..Len(docs) |-> SplitDocument(docs[i])])

(***************************************************************************)
(* The embedding service and similarity search.  The service is a black    *)
(* box; it is modelled as a fixed deterministic function.                  *)
(***************************************************************************)
Questions == {"qa", "qb"}

EmbedQuestion(q) == IF q = "qa" THEN 10 ELSE 21

EmbedChunk(c) ==
    (IF c.doc = "a" THEN 10 ELSE 20) + (c.start \div (chunk_size - chunk_overlap))

Abs(x) == IF x < 0 THEN -x ELSE x

Similarity(q, c) == -Abs(EmbedQuestion(q) - EmbedChunk(c))

\* Position of the most similar entry; ties go to the earliest inserted.
BestPos(q, entries) ==
    CHOOSE i \in 1..Len(entries) :
        /\ \A j \in 1..Len(entries) :
              Similarity(q, entries[j]) <= Similarity(q, entries[i])
        /\ \A j \in 1..(i - 1) :
              Similarity(q, entries[j]) < Similarity(q, entries[i])

Remove(s, i) == SubSeq(s, 1, i - 1) \o SubSeq(s, i + 1, Len(s))

\* similarity search: the n most similar entries, most similar first.
RECURSIVE similarity_search(_, _, _)
similarity_search(q, entries, n) ==
    IF n = 0 \/ entries = <<>> THEN <<>>
    ELSE LET i == BestPos(q, entries)
         IN  <<entries[i]>> \o similarity_search(q, Remove(entries, i), n - 1)

(***************************************************************************)
(* RAGEvaluator's scoring functions.  A Python str is modelled as the      *)
(* sequence of its characters, a float quotient a / b as the exact         *)
(* fraction <<a, b>>, and 0.0 and 1.0 as <<0, 1>> and <<1, 1>>.            *)
(***************************************************************************)
UpperChars == <<"A", "B", "C", "D", "E", "F", "G", "H", "I", "J", "K", "L", "M", "N", "O", "P", "Q", "R", "S", "T", "U", "V", "W", "X", "Y", "Z">>

LowerChars == <<"a", "b", "c", "d", "e", "f", "g", "h", "i", "j", "k", "l", "m", "n", "o", "p", "q", "r", "s", "t", "u", "v", "w", "x", "y", "z">>

Digits == {"0", "1", "2", "3", "4", "5", "6", "7", "8", "9"}

\* str.lower(), character by character
LowerChar(c) ==
    IF \E i \in 1..Len(UpperChars) : UpperChars[i] = c
    THEN LowerChars[CHOOSE i \in 1..Len(UpperChars) : UpperChars[i] = c]
    ELSE c

lower(s) == [i \in 1..Len(s) |-> LowerChar(s[i])]

\* Python's `needle in hay` on str
Contains(needle, hay) ==
    \E i \in 0..(Len(hay) - Len(needle)) :
        SubSeq(hay, i + 1, i + Len(needle)) = needle

Frac(a, b) == <<a, b>>

\* re.findall(r'\d+', text): the maximal runs of digits, left to right.
\* `run` is the run being read.
RECURSIVE findall_digits(_, _)
findall_digits(text, run) ==
    IF text = <<>>
    THEN IF run = <<>> THEN <<>> ELSE <<run>>
    ELSE IF Head(text) \in Digits
         THEN findall_digits(Tail(text), Append(run, Head(text)))
         ELSE (IF run = <<>> THEN <<>> ELSE <<run>>)
              \o findall_digits(Tail(text), <<>>)

\* the vocabularies of _extract_facts
crime_types ==
    << <<"M", "u", "r", "d", "e", "r">>,
       <<"A", "s", "s", "a", "u", "l", "t">>,
       <<"R", "o", "b", "b", "e", "r", "y">>,
       <<"B", "r", "e", "a", "k", " ", "a", "n", "d", " ", "e", "n", "t", "e", "r">>,
       <<"M", "o", "t", "o", "r", " ", "v", "e", "h", "i", "c", "l", "e", " ", "t", "h", "e", "f", "t">>,
       <<"D", "r", "u", "g">>,
       <<"S", "e", "x", "u", "a", "l", " ", "a", "s", "s", "a", "u", "l", "t">>,
       <<"F", "r", "a", "u", "d">>,
       <<"D", "o", "m", "e", "s", "t", "i", "c", " ", "v", "i", "o", "l", "e", "n", "c", "e">> >>

lgas ==
    << <<"G", "r", "e", "a", "t", "e", "r", " ", "S", "y", "d", "n", "e", "y">>,
       <<"N", "S", "W", " ", "R", "e", "g", "i", "o", "n", "a", "l">>,
       <<"N", "e", "w", " ", "S", "o", "u", "t", "h", " ", "W", "a", "l", "e", "s">> >>

trends ==
    << <<"i", "n", "c", "r", "e", "a", "s", "i", "n", "g">>,
       <<"d", "e", "c", "r", "e", "a", "s", "i", "n", "g">>,
       <<"s", "t", "a", "b", "l", "e">> >>

\* the terms of `vocabulary`, in its order, that occur in `text`
TermsIn(vocabulary, text) == SelectSeq(vocabulary, LAMBDA t : Contains(t, text))

\* _extract_facts had it matched the crime types in the lower-cased text.
_extract_facts_LowerCrime(text) ==
    findall_digits(text, <<>>)
        \o SelectSeq(crime_types, LAMBDA t : Contains(lower(t), lower(text)))
        \o TermsIn(lgas, text)
        \o TermsIn(trends, lower(text))

\* _extract_facts: the list of facts, duplicates kept.
_extract_facts(text) ==
    findall_digits(text, <<>>)
        \o TermsIn(crime_types, text)
        \o TermsIn(lgas, text)
        \o TermsIn(trends, lower(text))

\* the loop of evaluate_effectiveness: keyword_matches over the list
RECURSIVE keyword_matches(_, _)
keyword_matches(expected, answer_lower) ==
    IF expected = <<>> THEN 0
    ELSE (IF Contains(lower(Head(expected)), answer_lower) THEN 1 ELSE 0)
         + keyword_matches(Tail(expected), answer_lower)

\* evaluate_effectiveness had it searched the answer as written.
evaluate_effectiveness_CaseSensitive(question, ans, expected) ==
    IF ans = <<>> \/ expected = <<>>
    THEN Frac(0, 1)
    ELSE Frac(keyword_matches(expected, ans), Len(expected))

evaluate_effectiveness(question, ans, expected) ==
    IF ans = <<>> \/ expected = <<>>
    THEN Frac(0, 1)
    ELSE Frac(keyword_matches(expected, lower(ans)), Len(expected))

\* the loops of evaluate_faithfulness: one count per fact of the list that
\* some document's content contains (the inner loop breaks at the first).
RECURSIVE supported_facts(_, _)
supported_facts(facts, docs) ==
    IF facts = <<>> THEN 0
    ELSE (IF \E d \in 1..Len(docs) :
                 Contains(lower(Head(facts)), lower(docs[d].content))
          THEN 1 ELSE 0)
         + supported_facts(Tail(facts), docs)

evaluate_faithfulness(ans, docs) ==
    IF ans = <<>> \/ docs = <<>>
    THEN Frac(0, 1)
    ELSE LET answer_facts == _extract_facts(ans)
         IN  IF answer_facts = <<>>
             THEN Frac(0, 1)
             ELSE Frac(supported_facts(answer_facts, docs), Len(answer_facts))

\* the loop of evaluate_source_attribution: the set of 'lga' values
actual_sources(docs) ==
    {docs[i].metadata["lga"] :
        i \in {j \in 1..Len(docs) : "lga" \in DOMAIN docs[j].metadata}}

\* evaluate_source_attribution had it scored an empty expected_sources 0.0.
evaluate_source_attribution_EmptyIsZero(docs, expected) ==
    IF docs = <<>> \/ expected = <<>>
    THEN Frac(0, 1)
    ELSE LET expected_sources_set == Range(expected)
             intersection == actual_sources(docs) \cap expected_sources_set
         IN  Frac(Cardinality(intersection), Cardinality(expected_sources_set))

\* evaluate_source_attribution had it counted documents, not regions.
evaluate_source_attribution_CountsDocs(docs, expected) ==
    IF docs = <<>>
    THEN Frac(0, 1)
    ELSE IF expected = <<>>
    THEN (IF docs # <<>> THEN Frac(1, 1) ELSE Frac(0, 1))
    ELSE LET expected_sources_set == Range(expected)
             hits == {i \in 1..Len(docs) :
                        /\ "lga" \in DOMAIN docs[i].metadata
                        /\ docs[i].metadata["lga"] \in expected_sources_set}
         IN  Frac(Cardinality(hits), Cardinality(expected_sources_set))

evaluate_source_attribution(docs, expected) ==
    IF docs = <<>>
    THEN Frac(0, 1)
    ELSE IF expected = <<>>
    THEN (IF docs # <<>> THEN Frac(1, 1) ELSE Frac(0, 1))
    ELSE LET expected_sources_set == Range(expected)
             intersection == actual_sources(docs) \cap expected_sources_set
         IN  IF expected_sources_set = {}
             THEN Frac(1, 1)
             ELSE Frac(Cardinality(intersection), Cardinality(expected_sources_set))


(***************************************************************************)
(* The record of the last call (history, for stating the claims).          *)
(***************************************************************************)
NoCall ==
    [op |-> "none", force |-> FALSE, existed |-> FALSE, route |-> "none",
     outcome |-> "none", preDir |-> FALSE, preIndex |-> <<>>,
     preReady |-> FALSE, preStore |-> "None", corpusRead |-> FALSE,
     embedded |-> 0, chunks |-> <<>>, retrieved |-> FALSE,
     generated |-> FALSE, question |-> "none", result |-> <<>>]

NoScore == [fn |-> "none", value |-> <<0, 1>>, facts |-> <<>>]

\* no scoring call has been made and none is being modelled
ScoringIdle ==
    /\ answer = <<>>
    /\ expected_keywords = <<>>
    /\ source_documents = <<>>
    /\ expected_sources = <<>>
    /\ score = NoScore

NoRun ==
    [pc |-> "idle", pos |-> 0, start |-> 0, queried |-> <<>>, failed |-> {},
     runs |-> 0]

NoReport == [kind |-> "none"]

NoFile == [kind |-> "none"]

\* RAGEvaluator.__init__: no result yet; nothing run, reported or saved
EvaluatorIdle ==
    /\ evaluation_results = <<>>
    /\ runState = NoRun
    /\ report = NoReport
    /\ saved = NoFile
    /\ main = "none"
    /\ averages = <<>>

\* NSWCrimeRAGPipeline.__init__: no vector store, no QA chain.  The
\* directory chroma_db is absent, or holds the index of an earlier build.
Init ==
    /\ corpus \in Corpora
    /\ \/ dirExists = FALSE /\ index = <<>>
       \/ dirExists = TRUE
          /\ index \in {split_documents(load_documents(c)) : c \in Corpora}
    /\ vectorstore = "None"
    /\ qa_chain = "None"
    /\ storeHasLen \in BOOLEAN
    /\ last = NoCall
    /\ ScoringIdle
    /\ EvaluatorIdle
    /\ failing = {}

(***************************************************************************)
(* NSWCrimeRAGPipeline.  A call's failure point `fail` and the number      *)
(* `done` of chunks handled before the failure are inputs of the call.     *)
(***************************************************************************)

\* truth value of `self.vectorstore` in `if not self.vectorstore`: None is
\* false; a Chroma object is true, except that a library version giving
\* Chroma a __len__ makes an object over an empty collection false.
Truthy(store, entries) ==
    /\ store # "None"
    /\ storeHasLen => entries # <<>>

\* create_vector_store: split, Chroma.from_documents (open the directory,
\* embed every chunk, add the chunks to the collection), assign
\* self.vectorstore, persist.  The assignment happens only when
\* from_documents returns.
create_vector_store(documents, fail, done) ==
    LET splits == split_documents(documents)
    IN  CASE fail = "embed" ->
               [dirExists |-> TRUE, index |-> index, vectorstore |-> vectorstore,
                outcome |-> "EmbeddingServiceError", embedded |-> done,
                chunks |-> splits]
          [] fail = "store" ->
               [dirExists |-> TRUE, index |-> index \o Prefix(splits, done),
                vectorstore |-> vectorstore, outcome |-> "StorageError",
                embedded |-> Len(splits), chunks |-> splits]
          [] OTHER ->
               [dirExists |-> TRUE, index |-> index \o splits,
                vectorstore |-> "Store", outcome |-> "ok",
                embedded |-> Len(splits), chunks |-> splits]

\* load_vector_store had it re-embedded the stored entries on opening.
load_vector_store_Reembed(fail) ==
    IF fail = "open"
    THEN [dirExists |-> dirExists, index |-> index, vectorstore |-> vectorstore,
          outcome |-> "StorageError", embedded |-> 0, chunks |-> <<>>]
    ELSE [dirExists |-> TRUE, index |-> index, vectorstore |-> "Store",
          outcome |-> "ok", embedded |-> Len(index), chunks |-> <<>>]

\* load_vector_store: open the persisted directory; nothing is embedded.
load_vector_store(fail) ==
    IF fail = "open"
    THEN [dirExists |-> dirExists, index |-> index, vectorstore |-> vectorstore,
          outcome |-> "StorageError", embedded |-> 0, chunks |-> <<>>]
    ELSE [dirExists |-> TRUE, index |-> index, vectorstore |-> "Store",
          outcome |-> "ok", embedded |-> 0, chunks |-> <<>>]

\* setup_qa_chain had it built the chain without assigning self.qa_chain.
setup_qa_chain_NoAssign(store, entries, fail) ==
    IF ~Truthy(store, entries)
    THEN [qa_chain |-> qa_chain, outcome |-> "ValueError"]
    ELSE IF fail = "chain"
         THEN [qa_chain |-> qa_chain, outcome |-> "ChainError"]
         ELSE [qa_chain |-> qa_chain, outcome |-> "ok"]

\* setup_qa_chain had it assigned self.qa_chain before the chain was built.
setup_qa_chain_AssignsFirst(store, entries, fail) ==
    IF ~Truthy(store, entries)
    THEN [qa_chain |-> qa_chain, outcome |-> "ValueError"]
    ELSE IF fail = "chain"
         THEN [qa_chain |-> "Chain", outcome |-> "ChainError"]
         ELSE [qa_chain |-> "Chain", outcome |-> "ok"]

\* setup_qa_chain on the object's fields `store` (over `entries`).
setup_qa_chain(store, entries, fail) ==
    IF ~Truthy(store, entries)
    THEN [qa_chain |-> qa_chain, outcome |-> "ValueError"]
    ELSE IF fail = "chain"
         THEN [qa_chain |-> qa_chain, outcome |-> "ChainError"]
         ELSE [qa_chain |-> "Chain", outcome |-> "ok"]

\* the branch condition had it ignored force_recreate.
ShouldBuild_IgnoresForce(force_recreate, exists) == ~exists

\* the branch condition of initialize_pipeline
ShouldBuild(force_recreate, exists) == force_recreate \/ ~exists

\* the failure points a call can meet on its route
FailPoints(build) ==
    IF build THEN {"none", "corpus", "embed", "store", "chain"}
    ELSE {"none", "open", "chain"}

initialize_pipeline(force_recreate, fail, done) ==
    LET build == ShouldBuild(force_recreate, dirExists)
        call == [NoCall EXCEPT !.op = "initialize", !.force = force_recreate,
                               !.existed = dirExists, !.preDir = dirExists,
                               !.preIndex = index,
                               !.preReady = (qa_chain # "None"),
                               !.preStore = vectorstore,
                               !.route = IF build THEN "build" ELSE "load",
                               !.corpusRead = build]
    IN  IF build /\ fail = "corpus"
        THEN /\ last' = [call EXCEPT !.outcome = "CorpusError"]
             /\ UNCHANGED <<dirExists, index, vectorstore, qa_chain>>
        ELSE LET vs == IF build
                       THEN create_vector_store(load_documents(corpus), fail, done)
                       ELSE load_vector_store(fail)
                 filled == [call EXCEPT !.embedded = vs.embedded,
                                        !.chunks = vs.chunks]
             IN  /\ dirExists' = vs.dirExists
                 /\ index' = vs.index
                 /\ vectorstore' = vs.vectorstore
                 /\ IF vs.outcome # "ok"
                    THEN /\ qa_chain' = qa_chain
                         /\ last' = [filled EXCEPT !.outcome = vs.outcome]
                    ELSE LET qa == setup_qa_chain(vs.vectorstore, vs.index, fail)
                         IN  /\ qa_chain' = qa.qa_chain
                             /\ last' = [filled EXCEPT !.outcome = qa.outcome]

Initialize ==
    \E force_recreate \in BOOLEAN :
      LET build == ShouldBuild(force_recreate, dirExists)
          n == Len(split_documents(load_documents(corpus)))
      IN  /\ build => Len(index) + n <= MaxIndex
          /\ \E fail \in FailPoints(build) :
               \E done \in (IF fail \in {"embed", "store"} THEN 0..(n - 1) ELSE {0}) :
                  initialize_pipeline(force_recreate, fail, done)
          /\ UNCHANGED <<corpus, storeHasLen>>
          /\ UNCHANGED <<evalVars, runVars>>

\* query had it guarded on self.vectorstore instead of self.qa_chain.
query_GuardsStore(question, fail) ==
    IF vectorstore = "None"
    THEN [outcome |-> "NotInitialized", retrieved |-> FALSE,
          generated |-> FALSE, result |-> <<>>]
    ELSE IF fail = "embed"
    THEN [outcome |-> "EmbeddingServiceError", retrieved |-> TRUE,
          generated |-> FALSE, result |-> <<>>]
    ELSE IF fail = "generate"
    THEN [outcome |-> "GenerationServiceError", retrieved |-> TRUE,
          generated |-> TRUE, result |-> <<>>]
    ELSE [outcome |-> "ok", retrieved |-> TRUE, generated |-> TRUE,
          result |-> similarity_search(question, index, search_k)]

\* query: the guard on self.qa_chain, then the chain (embed the question,
\* similarity search with k = 4, generate), then the result dictionary.
query(question, fail) ==
    IF qa_chain = "None"
    THEN [outcome |-> "NotInitialized", retrieved |-> FALSE,
          generated |-> FALSE, result |-> <<>>]
    ELSE IF fail = "embed"
    THEN [outcome |-> "EmbeddingServiceError", retrieved |-> TRUE,
          generated |-> FALSE, result |-> <<>>]
    ELSE IF fail = "generate"
    THEN [outcome |-> "GenerationServiceError", retrieved |-> TRUE,
          generated |-> TRUE, result |-> <<>>]
    ELSE [outcome |-> "ok", retrieved |-> TRUE, generated |-> TRUE,
          result |-> similarity_search(question, index, search_k)]

Query ==
    \E question \in Questions, fail \in {"none", "embed", "generate"} :
      LET r == query(question, fail)
      IN  /\ last' = [NoCall EXCEPT !.op = "query", !.existed = dirExists,
                                    !.preDir = dirExists, !.preIndex = index,
                                    !.preReady = (qa_chain # "None"),
                                    !.preStore = vectorstore,
                                    !.question = question,
                                    !.outcome = r.outcome,
                                    !.retrieved = r.retrieved,
                                    !.generated = r.generated,
                                    !.result = r.result]
          /\ UNCHANGED <<corpus, dirExists, index, vectorstore, qa_chain, storeHasLen>>
          /\ UNCHANGED <<evalVars, runVars>>

\* The corpus file is replaced between calls (the pipeline only reads it).
EditCorpus ==
    /\ \E c \in Corpora \ {corpus} : corpus' = c
    /\ last' = [NoCall EXCEPT !.op = "edit", !.existed = dirExists,
                              !.preDir = dirExists, !.preIndex = index,
                              !.preReady = (qa_chain # "None"),
                              !.preStore = vectorstore]
    /\ UNCHANGED <<dirExists, index, vectorstore, qa_chain, storeHasLen>>
    /\ UNCHANGED <<evalVars, runVars>>

Next == Initialize \/ Query \/ EditCorpus

Spec == Init /\ [][Next]_vars

(***************************************************************************)
(* The scoring functions applied to bounded inputs.  Answers are built     *)
(* from a few fragments; ScenarioAnswer and ScenarioContent are the        *)
(* answer and the source of the specification's faithfulness scenario.     *)
(***************************************************************************)
ScenarioAnswer ==
    <<"T", "h", "e", " ", "a", "s", "s", "a", "u", "l", "t", " ", "r", "a", "t", "e", " ", "i", "n", "c", "r", "e", "a", "s", "e", "d", " ", "t", "o", " ", "5", "0", "0", " ", "i", "n", " ", "G", "r", "e", "a", "t", "e", "r", " ", "S", "y", "d", "n", "e", "y">>

ScenarioContent ==
    <<"G", "r", "e", "a", "t", "e", "r", " ", "S", "y", "d", "n", "e", "y", " ", "a", "s", "s", "a", "u", "l", "t", " ", "r", "a", "t", "e", " ", "i", "s", " ", "5", "0", "0", " ", "p", "e", "r", " ", "1", "0", "0", "0", "0", "0">>

AnswerFragments ==
    { <<"5", " ">>,
      <<"7", " ">>,
      <<"A", "s", "s", "a", "u", "l", "t", " ">>,
      <<"S", "t", "a", "b", "l", "e", " ">> }

RECURSIVE AnswersOf(_)
AnswersOf(n) ==
    IF n = 0 THEN {<<>>}
    ELSE {f \o a : f \in AnswerFragments, a \in AnswersOf(n - 1)}

Answers == UNION {AnswersOf(n) : n \in 0..MaxFragments} \cup {ScenarioAnswer}

KeywordPool ==
    { <<>>,
      <<"a", "s", "s", "a", "u", "l", "t">>,
      <<"S", "T", "A", "B", "L", "E">>,
      <<"r", "a", "t", "e">> }

KeywordLists == UNION {[1..n -> KeywordPool] : n \in 0..MaxKeywords}

ContentPool ==
    { <<>>,
      ScenarioContent,
      <<"s", "t", "a", "b", "l", "e", " ", "7">> }

FaithfulnessSources ==
    UNION {[1..n -> {[content |-> c, metadata |-> [lga |-> "Greater Sydney"]] :
                        c \in ContentPool}] : n \in 0..MaxSources}

MetadataPool ==
    { [lga |-> "Greater Sydney"],
      [lga |-> "NSW Regional"],
      [lga |-> "Wollongong"],
      [crime_type |-> "Assault"] }

AttributionSources ==
    UNION {[1..n -> {[content |-> <<>>, metadata |-> m] : m \in MetadataPool}] :
              n \in 0..MaxSources}

ExpectedLists ==
    UNION {[1..n -> {"Greater Sydney", "NSW Regional", "New South Wales"}] :
              n \in 0..MaxExpected}

\* the pipeline as constructed, untouched while the scorers are exercised
PipelineIdle ==
    /\ corpus = << [name |-> "a", size |-> 300, lga |-> "Greater Sydney"] >>
    /\ dirExists = FALSE
    /\ index = <<>>
    /\ vectorstore = "None"
    /\ qa_chain = "None"
    /\ storeHasLen = FALSE
    /\ last = NoCall

InitEffectiveness ==
    /\ PipelineIdle
    /\ answer \in Answers
    /\ expected_keywords \in KeywordLists
    /\ source_documents = <<>>
    /\ expected_sources = <<>>
    /\ score = NoScore
    /\ EvaluatorIdle
    /\ failing = {}

EvaluateEffectiveness ==
    /\ score.fn = "none"
    /\ score' = [fn |-> "effectiveness",
                 value |-> evaluate_effectiveness(<<>>, answer, expected_keywords),
                 facts |-> <<>>]
    /\ UNCHANGED <<pipeVars, runVars, answer, expected_keywords,
                   source_documents, expected_sources>>

SpecEffectiveness == InitEffectiveness /\ [][EvaluateEffectiveness]_vars

InitFaithfulness ==
    /\ PipelineIdle
    /\ answer \in Answers
    /\ expected_keywords = <<>>
    /\ source_documents \in FaithfulnessSources
    /\ expected_sources = <<>>
    /\ score = NoScore
    /\ EvaluatorIdle
    /\ failing = {}

EvaluateFaithfulness ==
    /\ score.fn = "none"
    /\ score' = [fn |-> "faithfulness",
                 value |-> evaluate_faithfulness(answer, source_documents),
                 facts |-> <<>>]
    /\ UNCHANGED <<pipeVars, runVars, answer, expected_keywords,
                   source_documents, expected_sources>>

ExtractFacts ==
    /\ score.fn = "none"
    /\ score' = [fn |-> "extract_facts", value |-> <<0, 1>>,
                 facts |-> _extract_facts(answer)]
    /\ UNCHANGED <<pipeVars, runVars, answer, expected_keywords,
                   source_documents, expected_sources>>

NextFaithfulness == EvaluateFaithfulness \/ ExtractFacts

SpecFaithfulness == InitFaithfulness /\ [][NextFaithfulness]_vars

InitAttribution ==
    /\ PipelineIdle
    /\ answer = <<>>
    /\ expected_keywords = <<>>
    /\ source_documents \in AttributionSources
    /\ expected_sources \in ExpectedLists
    /\ score = NoScore
    /\ EvaluatorIdle
    /\ failing = {}

EvaluateSourceAttribution ==
    /\ score.fn = "none"
    /\ score' = [fn |-> "source_attribution",
                 value |-> evaluate_source_attribution(source_documents,
                                                       expected_sources),
                 facts |-> <<>>]
    /\ UNCHANGED <<pipeVars, runVars, answer, expected_keywords,
                   source_documents, expected_sources>>

SpecAttribution == InitAttribution /\ [][EvaluateSourceAttribution]_vars

(***************************************************************************)
(* RAGEvaluator: the benchmark run and the report.  Scores are exact       *)
(* fractions in lowest terms.                                              *)
(***************************************************************************)
\* _load_ground_truth: the ten benchmark items
ground_truth_data ==
    <<
      [question |-> "What are the crime statistics for Greater Sydney?",
       expected_keywords |->
          << <<"G", "r", "e", "a", "t", "e", "r", " ", "S", "y", "d", "n", "e", "y">>,
             <<"c", "r", "i", "m", "e">>,
             <<"s", "t", "a", "t", "i", "s", "t", "i", "c", "s">>,
             <<"r", "a", "t", "e">>,
             <<"c", "o", "u", "n", "t">>,
             <<"p", "e", "r", " ", "1", "0", "0", "0", "0", "0">> >>,
       expected_sources |-> << "Greater Sydney" >>],
      [question |-> "Compare crime rates between Greater Sydney and NSW Regional areas",
       expected_keywords |->
          << <<"c", "o", "m", "p", "a", "r", "e">>,
             <<"G", "r", "e", "a", "t", "e", "r", " ", "S", "y", "d", "n", "e", "y">>,
             <<"N", "S", "W", " ", "R", "e", "g", "i", "o", "n", "a", "l">>,
             <<"r", "a", "t", "e">>,
             <<"p", "e", "r", " ", "1", "0", "0", "0", "0", "0">>,
             <<"d", "i", "f", "f", "e", "r", "e", "n", "c", "e">> >>,
       expected_sources |-> << "Greater Sydney", "NSW Regional" >>],
      [question |-> "Which region has the highest assault rates?",
       expected_keywords |->
          << <<"h", "i", "g", "h", "e", "s", "t">>,
             <<"a", "s", "s", "a", "u", "l", "t">>,
             <<"r", "a", "t", "e">>,
             <<"r", "e", "g", "i", "o", "n">>,
             <<"G", "r", "e", "a", "t", "e", "r", " ", "S", "y", "d", "n", "e", "y">>,
             <<"N", "S", "W", " ", "R", "e", "g", "i", "o", "n", "a", "l">>,
             <<"N", "e", "w", " ", "S", "o", "u", "t", "h", " ", "W", "a", "l", "e", "s">> >>,
       expected_sources |-> << "Greater Sydney", "NSW Regional", "New South Wales" >>],
      [question |-> "What are the most common types of crimes in NSW?",
       expected_keywords |->
          << <<"c", "o", "m", "m", "o", "n">>,
             <<"t", "y", "p", "e", "s">>,
             <<"c", "r", "i", "m", "e", "s">>,
             <<"N", "S", "W">>,
             <<"A", "s", "s", "a", "u", "l", "t">>,
             <<"T", "h", "e", "f", "t">>,
             <<"D", "r", "u", "g">>,
             <<"B", "r", "e", "a", "k", " ", "a", "n", "d", " ", "e", "n", "t", "e", "r">> >>,
       expected_sources |-> << "New South Wales" >>],
      [question |-> "How has domestic violence related assault changed over time?",
       expected_keywords |->
          << <<"d", "o", "m", "e", "s", "t", "i", "c", " ", "v", "i", "o", "l", "e", "n", "c", "e">>,
             <<"a", "s", "s", "a", "u", "l", "t">>,
             <<"c", "h", "a", "n", "g", "e", "d">>,
             <<"t", "i", "m", "e">>,
             <<"t", "r", "e", "n", "d">>,
             <<"i", "n", "c", "r", "e", "a", "s", "i", "n", "g">>,
             <<"d", "e", "c", "r", "e", "a", "s", "i", "n", "g">> >>,
       expected_sources |-> << "Greater Sydney", "NSW Regional", "New South Wales" >>],
      [question |-> "What crime trends have occurred from 2015 to 2024?",
       expected_keywords |->
          << <<"t", "r", "e", "n", "d", "s">>,
             <<"2", "0", "1", "5">>,
             <<"2", "0", "2", "4">>,
             <<"c", "r", "i", "m", "e">>,
             <<"i", "n", "c", "r", "e", "a", "s", "i", "n", "g">>,
             <<"d", "e", "c", "r", "e", "a", "s", "i", "n", "g">>,
             <<"s", "t", "a", "b", "l", "e">> >>,
       expected_sources |-> << "Greater Sydney", "NSW Regional", "New South Wales" >>],
      [question |-> "What are the murder rates across NSW regions?",
       expected_keywords |->
          << <<"m", "u", "r", "d", "e", "r">>,
             <<"r", "a", "t", "e">>,
             <<"r", "e", "g", "i", "o", "n", "s">>,
             <<"G", "r", "e", "a", "t", "e", "r", " ", "S", "y", "d", "n", "e", "y">>,
             <<"N", "S", "W", " ", "R", "e", "g", "i", "o", "n", "a", "l">>,
             <<"N", "e", "w", " ", "S", "o", "u", "t", "h", " ", "W", "a", "l", "e", "s">> >>,
       expected_sources |-> << "Greater Sydney", "NSW Regional", "New South Wales" >>],
      [question |-> "How prevalent is motor vehicle theft in Greater Sydney?",
       expected_keywords |->
          << <<"m", "o", "t", "o", "r", " ", "v", "e", "h", "i", "c", "l", "e", " ", "t", "h", "e", "f", "t">>,
             <<"p", "r", "e", "v", "a", "l", "e", "n", "t">>,
             <<"G", "r", "e", "a", "t", "e", "r", " ", "S", "y", "d", "n", "e", "y">>,
             <<"r", "a", "t", "e">>,
             <<"c", "o", "u", "n", "t">> >>,
       expected_sources |-> << "Greater Sydney" >>],
      [question |-> "Which areas have the highest drug-related crime rates?",
       expected_keywords |->
          << <<"d", "r", "u", "g">>,
             <<"h", "i", "g", "h", "e", "s", "t">>,
             <<"r", "a", "t", "e">>,
             <<"a", "r", "e", "a", "s">>,
             <<"d", "e", "a", "l", "i", "n", "g">>,
             <<"t", "r", "a", "f", "f", "i", "c", "k", "i", "n", "g">>,
             <<"p", "o", "s", "s", "e", "s", "s", "i", "o", "n">> >>,
       expected_sources |-> << "Greater Sydney", "NSW Regional", "New South Wales" >>],
      [question |-> "Show me all drug-related offenses in NSW",
       expected_keywords |->
          << <<"d", "r", "u", "g">>,
             <<"o", "f", "f", "e", "n", "s", "e", "s">>,
             <<"N", "S", "W">>,
             <<"d", "e", "a", "l", "i", "n", "g">>,
             <<"t", "r", "a", "f", "f", "i", "c", "k", "i", "n", "g">>,
             <<"p", "o", "s", "s", "e", "s", "s", "i", "o", "n">>,
             <<"c", "a", "n", "n", "a", "b", "i", "s">>,
             <<"a", "m", "p", "h", "e", "t", "a", "m", "i", "n", "e", "s">> >>,
       expected_sources |-> << "New South Wales" >>]
    >>

RECURSIVE Gcd(_, _)
Gcd(a, b) == IF b = 0 THEN a ELSE Gcd(b, a % b)

\* the fraction f[1] / f[2] in lowest terms
Norm(f) == LET g == Gcd(f[1], f[2]) IN <<f[1] \div g, f[2] \div g>>

AddF(f, g) == Norm(<<f[1] * g[2] + g[1] * f[2], f[2] * g[2]>>)

MulF(f, g) == Norm(<<f[1] * g[1], f[2] * g[2]>>)

DivF(f, n) == Norm(<<f[1], f[2] * n>>)

LessF(f, g) == f[1] * g[2] < g[1] * f[2]

RECURSIVE SumF(_)
SumF(fs) == IF fs = <<>> THEN <<0, 1>> ELSE AddF(Head(fs), SumF(Tail(fs)))

RECURSIVE Pow10(_)
Pow10(d) == IF d = 0 THEN 1 ELSE 10 * Pow10(d - 1)

\* round(x, ndigits): to the nearest multiple of 10^-ndigits, halves to even
Round(f, ndigits) ==
    LET scale == Pow10(ndigits)
        n == f[1] * scale
        q == n \div f[2]
        r == n % f[2]
        up == (2 * r > f[2]) \/ (2 * r = f[2] /\ q % 2 = 1)
    IN  Norm(<<IF up THEN q + 1 ELSE q, scale>>)

\* the weights of the overall score and the threshold of "unanswered"
WeightEffectiveness == <<2, 5>>

WeightFaithfulness == <<2, 5>>

WeightSourceAttribution == <<1, 5>>

UnansweredBelow == <<3, 10>>

overall_score_Unweighted(effectiveness, faithfulness, source_attribution) ==
    AddF(AddF(effectiveness, faithfulness), source_attribution)

\* effectiveness * 0.4 + faithfulness * 0.4 + source_attribution * 0.2
overall_score(effectiveness, faithfulness, source_attribution) ==
    AddF(AddF(MulF(effectiveness, WeightEffectiveness),
              MulF(faithfulness, WeightFaithfulness)),
         MulF(source_attribution, WeightSourceAttribution))

\* self.pipeline.query(question) when it returns: the pipeline and the
\* model behind it are a black box, modelled as a fixed function of the
\* benchmark item.
QueryResultFor(i) ==
    IF i \in {1, 8}
    THEN [answer |-> <<"5", " ", "7", " ", "8", " ", "9">>,
          source_documents |->
             << [content |-> <<"5">>, metadata |-> [lga |-> "Greater Sydney"]] >>]
    ELSE IF i \in {4, 7, 10}
    THEN [answer |-> <<>>, source_documents |-> <<>>]
    ELSE [answer |-> <<"r", "a", "t", "e", " ", "5">>,
          source_documents |->
             << [content |-> <<"5">>, metadata |-> [lga |-> "Greater Sydney"]] >>]

\* the body of the try block for one item: the three scores, the overall
\* score and the EvaluationResult
EvaluationResultFor(gt_data, result) ==
    LET effectiveness ==
            Norm(evaluate_effectiveness(gt_data.question, result.answer,
                                        gt_data.expected_keywords))
        faithfulness ==
            Norm(evaluate_faithfulness(result.answer, result.source_documents))
        source_attribution ==
            Norm(evaluate_source_attribution(result.source_documents,
                                             gt_data.expected_sources))
    IN  [question |-> gt_data.question,
         answer |-> result.answer,
         source_documents |-> result.source_documents,
         effectiveness_score |-> effectiveness,
         faithfulness_score |-> faithfulness,
         source_attribution_score |-> source_attribution,
         overall_score |-> overall_score(effectiveness, faithfulness,
                                         source_attribution)]

\* the notes of _generate_recommendations
RecEffectiveness ==
    "Improve answer relevance by fine-tuning the retrieval system or adjusting the prompt template"

RecFaithfulness ==
    "Enhance faithfulness by improving the grounding of answers in source documents"

RecSourceAttribution ==
    "Improve source attribution by optimizing the retriever to find more relevant documents"

RecPerformingWell ==
    "System is performing well. Consider expanding the knowledge base for broader coverage"

RecContinueMonitoring ==
    "Continue monitoring system performance and consider expanding evaluation criteria"

LowThreshold == <<7, 10>>

HighThreshold_Low == <<7, 10>>

HighThreshold == <<4, 5>>

_generate_recommendations(effectiveness, faithfulness, source_attribution) ==
    LET recommendations ==
            (IF LessF(effectiveness, LowThreshold) THEN <<RecEffectiveness>> ELSE <<>>)
            \o (IF LessF(faithfulness, LowThreshold) THEN <<RecFaithfulness>> ELSE <<>>)
            \o (IF LessF(source_attribution, LowThreshold)
                THEN <<RecSourceAttribution>> ELSE <<>>)
            \o (IF ~LessF(effectiveness, HighThreshold)
                   /\ ~LessF(faithfulness, HighThreshold)
                THEN <<RecPerformingWell>> ELSE <<>>)
    IN  IF recommendations = <<>> THEN <<RecContinueMonitoring>> ELSE recommendations

Field(results, name) == [i \in 1..Len(results) |-> results[i][name]]

count_unanswered_Inclusive(results) ==
    Cardinality({i \in 1..Len(results) :
                   ~LessF(UnansweredBelow, results[i].overall_score)})

\* sum(1 for r in self.evaluation_results if r.overall_score < 0.3)
count_unanswered(results) ==
    Cardinality({i \in 1..Len(results) :
                   LessF(results[i].overall_score, UnansweredBelow)})

\* generate_report over a non-empty list.  `divisions` counts the divisions
\* by total_questions.
build_report(results) ==
    LET total_questions == Len(results)
        avg_effectiveness ==
            DivF(SumF(Field(results, "effectiveness_score")), total_questions)
        avg_faithfulness ==
            DivF(SumF(Field(results, "faithfulness_score")), total_questions)
        avg_source_attribution ==
            DivF(SumF(Field(results, "source_attribution_score")), total_questions)
        avg_overall ==
            DivF(SumF(Field(results, "overall_score")), total_questions)
        unanswered_questions == count_unanswered(results)
        unanswered_percentage ==
            MulF(DivF(<<unanswered_questions, 1>>, total_questions), <<100, 1>>)
    IN  [evaluation_summary |->
             [total_questions |-> total_questions,
              average_effectiveness |-> Round(avg_effectiveness, 3),
              average_faithfulness |-> Round(avg_faithfulness, 3),
              average_source_attribution |-> Round(avg_source_attribution, 3),
              average_overall_score |-> Round(avg_overall, 3),
              unanswered_questions |-> unanswered_questions,
              unanswered_percentage |-> Round(unanswered_percentage, 1)],
         detailed_results |->
             [i \in 1..Len(results) |->
                 [question |-> results[i].question,
                  effectiveness_score |-> Round(results[i].effectiveness_score, 3),
                  faithfulness_score |-> Round(results[i].faithfulness_score, 3),
                  source_attribution_score |->
                      Round(results[i].source_attribution_score, 3),
                  overall_score |-> Round(results[i].overall_score, 3)]],
         recommendations |->
             _generate_recommendations(avg_effectiveness, avg_faithfulness,
                                       avg_source_attribution),
         divisions |-> 5]

generate_report_NoGuard(results) ==
    IF results = <<>>
    THEN [raised |-> "ZeroDivisionError", divisions |-> 1]
    ELSE build_report(results)

\* generate_report: the guard on an empty list, then the report
generate_report(results) ==
    IF results = <<>>
    THEN [error |-> "No evaluation results available", divisions |-> 0]
    ELSE build_report(results)

\* save_results: the results and a fresh report, written to the file
save_results(results) ==
    [evaluation_results |-> results, report |-> generate_report(results)]


(***************************************************************************)
(* The evaluator's operations.  run_evaluation is a loop of one step per   *)
(* benchmark item.  The pipeline is a fixed function of the question: it   *)
(* answers as QueryResultFor says, and the try block of the items in       *)
(* `failing` raises (in the query or in the scoring of its result).        *)
(***************************************************************************)
NumItems == Len(ground_truth_data)

\* entering run_evaluation: the loop starts at the first benchmark item
run_evaluation_enter ==
    [pc |-> "loop", pos |-> 1, start |-> Len(evaluation_results),
     queried |-> <<>>, failed |-> {}, runs |-> runState.runs]

\* the EvaluationResult of each benchmark item whose try block runs to its end
RECURSIVE ResultsUpTo(_)
ResultsUpTo(n) ==
    IF n = 0 THEN <<>>
    ELSE Append(ResultsUpTo(n - 1),
                EvaluationResultFor(ground_truth_data[n], QueryResultFor(n)))

ItemResults == ResultsUpTo(NumItems)

run_evaluation_append_Replaces(results, i, raises) ==
    IF raises THEN results ELSE <<ItemResults[i]>>

run_evaluation_append_Prepends(results, i, raises) ==
    IF raises THEN results ELSE <<ItemResults[i]>> \o results

run_evaluation_append_KeepsFailed(results, i, raises) ==
    Append(results, ItemResults[i])

\* the list after one iteration over item i: a result is appended only when
\* the try block ran to its end
run_evaluation_append(results, i, raises) ==
    IF raises THEN results ELSE Append(results, ItemResults[i])

\* evaluator.run_evaluation() is called.  `report` and `saved` record what
\* generate_report returned and save_results wrote since the last run
\* began, so a new run clears them.
CallRunEvaluation ==
    /\ main = "none"
    /\ runState.pc = "idle"
    /\ runState.runs < MaxRuns
    /\ runState' = run_evaluation_enter
    /\ report' = NoReport
    /\ saved' = NoFile
    /\ UNCHANGED <<evaluation_results, main, averages, failing>>
    /\ UNCHANGED <<pipeVars, evalVars>>

\* one iteration of the loop: the query is made, the try block either
\* appends the item's result or raises, and the loop moves to the next item
RunItem ==
    /\ runState.pc = "loop"
    /\ runState.pos <= NumItems
    /\ LET raises == runState.pos \in failing
       IN  /\ evaluation_results' =
                  run_evaluation_append(evaluation_results, runState.pos, raises)
           /\ runState' = [runState EXCEPT
                              !.pos = @ + 1,
                              !.queried = Append(@, runState.pos),
                              !.failed = IF raises THEN @ \cup {runState.pos}
                                         ELSE @]
    /\ UNCHANGED <<report, saved, main, averages, failing>>
    /\ UNCHANGED <<pipeVars, evalVars>>

\* the loop is exhausted: run_evaluation returns self.evaluation_results
RunReturn ==
    /\ runState.pc = "loop"
    /\ runState.pos = NumItems + 1
    /\ runState' = [runState EXCEPT !.pc = "idle", !.runs = @ + 1]
    /\ main' = IF main = "run" THEN "report" ELSE main
    /\ UNCHANGED <<evaluation_results, report, saved, averages, failing>>
    /\ UNCHANGED <<pipeVars, evalVars>>

\* evaluator.generate_report() is called
CallGenerateReport ==
    /\ main = "none"
    /\ runState.pc = "idle"
    /\ report' = generate_report(evaluation_results)
    /\ UNCHANGED <<evaluation_results, runState, saved, main, averages, failing>>
    /\ UNCHANGED <<pipeVars, evalVars>>

\* evaluator.save_results() is called
CallSaveResults ==
    /\ main = "none"
    /\ runState.pc = "idle"
    /\ saved' = save_results(evaluation_results)
    /\ UNCHANGED <<evaluation_results, runState, report, main, averages, failing>>
    /\ UNCHANGED <<pipeVars, evalVars>>

\* main(), up to the call of run_evaluation: the pipeline is initialised
\* (when that raises, main ends) and a fresh evaluator is created
MainStart ==
    /\ main = "none"
    /\ EvaluatorIdle
    /\ \E initialized \in BOOLEAN :
          IF initialized
          THEN /\ main' = "run"
               /\ runState' = run_evaluation_enter
          ELSE /\ main' = "Exception"
               /\ UNCHANGED runState
    /\ UNCHANGED <<evaluation_results, report, saved, averages, failing>>
    /\ UNCHANGED <<pipeVars, evalVars>>

\* main(), after run_evaluation has returned: the report, the printed
\* summary (report["evaluation_summary"]) and save_results
MainFinish ==
    /\ main = "report"
    /\ report' = generate_report(evaluation_results)
    /\ IF "evaluation_summary" \in DOMAIN report'
       THEN /\ saved' = save_results(evaluation_results)
            /\ main' = "returned"
       ELSE /\ main' = "KeyError"
            /\ UNCHANGED saved
    /\ UNCHANGED <<evaluation_results, runState, averages, failing>>
    /\ UNCHANGED <<pipeVars, evalVars>>

\* _generate_recommendations applied to averages around its thresholds
AverageGrid ==
    {<<0, 1>>, <<69, 100>>, <<7, 10>>, <<3, 4>>, <<79, 100>>, <<4, 5>>, <<1, 1>>}

InitRecommendations ==
    /\ PipelineIdle
    /\ ScoringIdle
    /\ evaluation_results = <<>>
    /\ runState = NoRun
    /\ report = NoReport
    /\ saved = NoFile
    /\ main = "none"
    /\ failing = {}
    /\ averages \in AverageGrid \X AverageGrid \X AverageGrid

GenerateRecommendations ==
    /\ report = NoReport
    /\ report' = [recommendations |->
                     _generate_recommendations(averages[1], averages[2], averages[3])]
    /\ UNCHANGED <<evaluation_results, runState, saved, main, averages, failing>>
    /\ UNCHANGED <<pipeVars, evalVars>>

SpecRecommendations == InitRecommendations /\ [][GenerateRecommendations]_vars

InitEvaluation ==
    /\ PipelineIdle
    /\ ScoringIdle
    /\ EvaluatorIdle
    /\ failing \in SUBSET (1..NumItems)

NextEvaluation ==
    \/ CallRunEvaluation
    \/ RunItem
    \/ RunReturn
    \/ CallGenerateReport
    \/ CallSaveResults
    \/ MainStart
    \/ MainFinish

SpecEvaluation == InitEvaluation /\ [][NextEvaluation]_vars

\* run_evaluation is sequential code: once entered, each iteration and the
\* return are eventually executed (a call of the pipeline returns or raises)
SpecEvaluationFair ==
    /\ SpecEvaluation
    /\ WF_vars(RunItem)
    /\ WF_vars(RunReturn)


(***************************************************************************)
(* The pipeline's states of the specification: Ready is "a QA chain is     *)
(* wired".                                                                 *)
(***************************************************************************)
Ready == qa_chain # "None"

InitializeReturned == last.op = "initialize" /\ last.outcome = "ok"

LoadOnlyCall == last.op = "initialize" /\ ~last.force /\ last.existed

BuildFailed ==
    /\ last.op = "initialize"
    /\ last.route = "build"
    /\ last.outcome \in {"CorpusError", "EmbeddingServiceError", "StorageError"}

\* C1: a query on a pipeline with no QA chain wired fails with the
\* not-initialized error, invokes neither the retrieval nor the generation
\* service and returns no result; while the pipeline is Uninitialized no
\* query has returned.
C1_QueryBeforeInitializeFails ==
    /\ (last.op = "query" /\ ~last.preReady) =>
          /\ last.outcome = "NotInitialized"
          /\ ~last.retrieved
          /\ ~last.generated
          /\ last.result = <<>>
    /\ (last.op = "query" /\ ~Ready) => last.outcome = "NotInitialized"

\* C1 witness: a query was made on a pipeline whose initialize had assigned
\* a vector store but failed before wiring the chain.
C1_Witness ==
    /\ last.op = "query"
    /\ ~last.preReady
    /\ last.preStore = "Store"
    /\ last.outcome = "NotInitialized"

\* C2: the pipeline starts Uninitialized; every initialize that returns
\* (build or load, from Uninitialized or from Ready) leaves it Ready; a
\* query on a Ready pipeline never meets the not-initialized error; and no
\* step takes a Ready pipeline back to Uninitialized.
C2_InitializeLeadsToReady ==
    /\ [](last.op = "none" => ~Ready)
    /\ [](InitializeReturned => Ready /\ vectorstore = "Store")
    /\ []((last.op = "query" /\ last.preReady) => last.outcome # "NotInitialized")
    /\ [][Ready => Ready']_vars

\* C2 witness: an initialize invoked on a Ready pipeline returned after a
\* rebuild.
C2_Witness ==
    /\ InitializeReturned
    /\ last.preReady
    /\ last.route = "build"
    /\ Ready

\* C3: initialize builds (reads the corpus, embeds) exactly when
\* force_recreate is true or no persisted index existed at the call, and
\* loads otherwise; a load is never made when no persisted index exists.
C3_BuildIffForcedOrMissing ==
    last.op = "initialize" =>
        /\ (last.route = "build") <=> (last.force \/ ~last.preDir)
        /\ (last.route = "load") <=> ~(last.force \/ ~last.preDir)
        /\ last.corpusRead <=> (last.force \/ ~last.preDir)
        /\ (last.route = "load") => (last.preDir /\ last.embedded = 0)
        /\ (last.route = "build" /\ last.outcome = "ok") =>
              last.embedded = Len(last.chunks) /\ last.chunks # <<>>

\* C3 witness: a forced initialize rebuilt although an index existed.
C3_Witness ==
    /\ InitializeReturned
    /\ last.force
    /\ last.preDir
    /\ last.route = "build"
    /\ last.embedded > 0

\* C4: when a build fails, the persisted index (the directory and its
\* entries) is exactly what it was before the build started.
C4_FailedBuildLeavesIndexUntouched ==
    BuildFailed => (dirExists = last.preDir /\ index = last.preIndex)

\* C5: after a successful initialize with force_recreate = true the
\* persisted index holds exactly the chunks of the corpus just loaded, and
\* retrieval for every question is what it is over those chunks alone.
C5_RebuildReplacesIndex ==
    (InitializeReturned /\ last.force) =>
        /\ index = last.chunks
        /\ \A q \in Questions :
              similarity_search(q, index, search_k)
                  = similarity_search(q, last.chunks, search_k)

\* C6: initialize with force_recreate = false on an existing persisted
\* index only loads: the persisted index is unchanged, no chunk is embedded
\* and the corpus file is not read; when it returns the pipeline is Ready,
\* and a repetition of the call leaves the pipeline and the index as the
\* first call left them.
C6_LoadIsIdempotent ==
    /\ [](LoadOnlyCall =>
            /\ last.route = "load"
            /\ index = last.preIndex
            /\ dirExists = last.preDir
            /\ last.embedded = 0
            /\ ~last.corpusRead
            /\ (last.outcome = "ok" => Ready /\ vectorstore = "Store"))
    /\ [][(LoadOnlyCall /\ last.outcome = "ok"
            /\ LoadOnlyCall' /\ last'.outcome = "ok")
           => UNCHANGED <<corpus, dirExists, index, vectorstore, qa_chain>>]_vars

\* C6 witness: a load-only initialize returned on a pipeline that was
\* already Ready with a non-empty index.
C6_Witness ==
    /\ LoadOnlyCall
    /\ last.outcome = "ok"
    /\ last.preReady
    /\ last.preStore = "Store"
    /\ index # <<>>

(***************************************************************************)
(* The scores, stated without the code's loops.                            *)
(***************************************************************************)
SameLetter(a, b) ==
    \/ a = b
    \/ \E i \in 1..Len(UpperChars) : {a, b} = {UpperChars[i], LowerChars[i]}

\* `needle` occurs in `hay` up to the case of letters
OccursIgnoringCase(needle, hay) ==
    \E i \in 0..(Len(hay) - Len(needle)) :
        \A j \in 1..Len(needle) : SameLetter(needle[j], hay[i + j])

\* `needle` occurs in `hay` as written
OccursVerbatim(needle, hay) ==
    \E i \in 0..(Len(hay) - Len(needle)) :
        \A j \in 1..Len(needle) : needle[j] = hay[i + j]

\* the maximal runs of digits of `text`
DigitRuns(text) ==
    { SubSeq(text, i, j) : <<i, j>> \in
        { ij \in (1..Len(text)) \X (1..Len(text)) :
            /\ ij[1] <= ij[2]
            /\ \A k \in ij[1]..ij[2] : text[k] \in Digits
            /\ ij[1] = 1 \/ text[ij[1] - 1] \notin Digits
            /\ ij[2] = Len(text) \/ text[ij[2] + 1] \notin Digits } }

InUnitInterval(v) == 0 <= v[1] /\ v[1] <= v[2] /\ v[2] > 0

SameValue(v, w) == v[1] * w[2] = w[1] * v[2]

MatchedKeywords ==
    {i \in 1..Len(expected_keywords) :
        OccursIgnoringCase(expected_keywords[i], answer)}

\* C7: evaluate_effectiveness returns the number of expected keywords that
\* occur case-insensitively in the answer divided by the number of expected
\* keywords; it is 0.0 when the answer or the keyword list is empty; the
\* result is in [0,1].
C7_EffectivenessIsKeywordRatio ==
    score.fn = "effectiveness" =>
        /\ InUnitInterval(score.value)
        /\ (answer = <<>> \/ expected_keywords = <<>>) => score.value = <<0, 1>>
        /\ (answer # <<>> /\ expected_keywords # <<>>) =>
              SameValue(score.value,
                        <<Cardinality(MatchedKeywords), Len(expected_keywords)>>)

\* C7 witness: a keyword written in another case than the answer matched,
\* and another keyword did not.
C7_Witness ==
    /\ score.fn = "effectiveness"
    /\ score.value = <<1, 2>>
    /\ \E i \in MatchedKeywords :
          /\ expected_keywords[i] # <<>>
          /\ ~OccursVerbatim(expected_keywords[i], answer)

FactSet == Range(_extract_facts(answer))

SupportedFactSet ==
    {f \in FactSet :
        \E d \in 1..Len(source_documents) :
            OccursIgnoringCase(f, source_documents[d].content)}

\* C8: evaluate_faithfulness returns the number of facts of the set of
\* extracted facts that occur case-insensitively in some source document
\* divided by the size of that set, each fact counted once; 0.0 when no
\* fact is extracted or there is no source document; the result is in [0,1].
C8_FaithfulnessOverFactSet ==
    score.fn = "faithfulness" =>
        /\ InUnitInterval(score.value)
        /\ (FactSet = {} \/ source_documents = <<>>) => score.value = <<0, 1>>
        /\ (FactSet # {} /\ source_documents # <<>>) =>
              SameValue(score.value,
                        <<Cardinality(SupportedFactSet), Cardinality(FactSet)>>)

\* C9 as the specification states it: the facts are the numeric substrings
\* and the vocabulary terms (crime types, regions, trend words) that appear
\* verbatim in the answer.
C9_FactsAreVerbatimTerms ==
    score.fn = "extract_facts" =>
        Range(score.facts) =
            DigitRuns(answer)
            \cup {t \in Range(crime_types) \cup Range(lgas) \cup Range(trends) :
                    OccursVerbatim(t, answer)}

\* C9 amended: the facts are the maximal digit runs, the crime-type and
\* region terms that appear verbatim, and the trend words that appear
\* case-insensitively; for the scenario answer the facts are "500" and
\* "Greater Sydney", and faithfulness against a source containing both is
\* 1.0.
C9_FactsVerbatimButTrendsAnyCase ==
    /\ score.fn = "extract_facts" =>
          /\ Range(score.facts) =
                DigitRuns(answer)
                \cup {t \in Range(crime_types) \cup Range(lgas) :
                        OccursVerbatim(t, answer)}
                \cup {t \in Range(trends) : OccursIgnoringCase(t, answer)}
          /\ answer = ScenarioAnswer =>
                score.facts = << <<"5", "0", "0">>, <<"G", "r", "e", "a", "t", "e", "r", " ", "S", "y", "d", "n", "e", "y">> >>
    /\ ( /\ score.fn = "faithfulness"
         /\ answer = ScenarioAnswer
         /\ \E d \in 1..Len(source_documents) :
               /\ OccursVerbatim(<<"5", "0", "0">>, source_documents[d].content)
               /\ OccursVerbatim(<<"G", "r", "e", "a", "t", "e", "r", " ", "S", "y", "d", "n", "e", "y">>, source_documents[d].content) )
       => score.value = <<2, 2>>

\* C9 witness: the scenario answer was scored against the scenario source.
C9_Witness ==
    /\ score.fn = "faithfulness"
    /\ answer = ScenarioAnswer
    /\ source_documents # <<>>
    /\ source_documents[1].content = ScenarioContent
    /\ score.value = <<2, 2>>

ExpectedRegions == Range(expected_sources)

AttributedRegions ==
    {e \in ExpectedRegions :
        \E i \in 1..Len(source_documents) :
            /\ "lga" \in DOMAIN source_documents[i].metadata
            /\ source_documents[i].metadata["lga"] = e}

\* C10: for a non-empty expected_sources, evaluate_source_attribution
\* returns the number of expected regions that are the 'lga' of some
\* retrieved document divided by the number of expected regions (documents
\* without an lga contribute nothing); the result is in [0,1].
C10_AttributionIsRegionRatio ==
    (score.fn = "source_attribution" /\ expected_sources # <<>>) =>
        /\ InUnitInterval(score.value)
        /\ SameValue(score.value,
                     <<Cardinality(AttributedRegions), Cardinality(ExpectedRegions)>>)

\* C10 witness: two retrieved documents of the same expected region, one
\* of two expected regions attributed.
C10_Witness ==
    /\ score.fn = "source_attribution"
    /\ Len(source_documents) = 2
    /\ source_documents[1] = source_documents[2]
    /\ Cardinality(ExpectedRegions) = 2
    /\ score.value = <<1, 2>>

\* C11: with an empty expected_sources, evaluate_source_attribution returns
\* 1.0 if at least one source document was retrieved and 0.0 otherwise,
\* whatever the documents' metadata.
C11_EmptyExpectedScoresRetrieval ==
    (score.fn = "source_attribution" /\ expected_sources = <<>>) =>
        /\ (source_documents # <<>>) => score.value = <<1, 1>>
        /\ (source_documents = <<>>) => score.value = <<0, 1>>
        /\ (score.value = <<1, 1>>) <=> (source_documents # <<>>)

\* C11 witness: nothing was expected and the only retrieved document has
\* no lga; the score is 1.0.
C11_Witness ==
    /\ score.fn = "source_attribution"
    /\ expected_sources = <<>>
    /\ Len(source_documents) = 1
    /\ "lga" \notin DOMAIN source_documents[1].metadata
    /\ score.value = <<1, 1>>

(***************************************************************************)
(* The benchmark run and the report.                                       *)
(***************************************************************************)
\* 0.4 * e + 0.4 * f + 0.2 * a as one quotient
WeightedScore(e, f, a) ==
    <<4 * e[1] * f[2] * a[2] + 4 * f[1] * e[2] * a[2] + 2 * a[1] * e[2] * f[2],
      10 * e[2] * f[2] * a[2]>>

\* C12: every EvaluationResult in the evaluator's list has an overall score
\* equal to 0.4 * effectiveness + 0.4 * faithfulness + 0.2 * source
\* attribution of the three scores stored in that same result, and the
\* overall score lies in [0, 1].
C12_OverallIsWeightedSum ==
    \A i \in 1..Len(evaluation_results) :
       LET r == evaluation_results[i]
       IN  /\ SameValue(r.overall_score,
                        WeightedScore(r.effectiveness_score, r.faithfulness_score,
                                      r.source_attribution_score))
           /\ InUnitInterval(r.overall_score)

\* a run has appended a result whose three scores differ and whose overall
\* score is strictly between 0 and 1
C12_Witness ==
    \E i \in 1..Len(evaluation_results) :
       LET r == evaluation_results[i]
       IN  /\ r.effectiveness_score = <<0, 1>>
           /\ r.faithfulness_score = <<1, 4>>
           /\ r.source_attribution_score = <<1, 1>>
           /\ r.overall_score = <<3, 10>>

\* the results appended by the current (or the last) run_evaluation call
AppendedByRun ==
    SubSeq(evaluation_results, runState.start + 1, Len(evaluation_results))

\* the benchmark item a result belongs to
ItemOf(r) == CHOOSE i \in 1..NumItems : ground_truth_data[i].question = r.question

AppendedItems == {ItemOf(AppendedByRun[k]) : k \in 1..Len(AppendedByRun)}

\* the items the loop has gone through
ProcessedItems == 1..(runState.pos - 1)

RunInProgress == runState.pc = "loop"

RunReturned == runState.pc = "idle" /\ runState.pos = NumItems + 1

C13_SkippedItemsOnly ==
    (RunInProgress \/ RunReturned) =>
       /\ AppendedItems = ProcessedItems \ failing
       /\ Len(AppendedByRun) = Cardinality(AppendedItems)
       /\ \A i \in ProcessedItems :
             Cardinality({k \in 1..Len(runState.queried) : runState.queried[k] = i}) = 1
       /\ RunReturned => AppendedItems = (1..NumItems) \ failing

\* C13: an item whose try block raises contributes no result and is queried
\* once only, every other item gone through has exactly one result, so a
\* returned run holds results for exactly the non-failing items; and every
\* run that has begun returns, whatever the set of failing items.
C13_FailingItemsAreSkipped ==
    /\ []C13_SkippedItemsOnly
    /\ (RunInProgress ~> RunReturned)

\* a run has returned in which an item failed and later items have results
C13_Witness ==
    /\ RunReturned
    /\ failing = {2, 5}
    /\ AppendedItems = {1, 3, 4, 6, 7, 8, 9, 10}

\* main has ended after its run_evaluation call returned
MainEnded == main \in {"returned", "KeyError"}

\* C14: whatever the set of failing items, all of them included, the entry
\* point goes through the report, the printed summary and save_results and
\* returns, having written the results it has.
C14_EntryPointCompletes ==
    MainEnded =>
       /\ main = "returned"
       /\ saved = save_results(evaluation_results)

\* C15: a report generated while the list of results is empty is the
\* "No evaluation results available" outcome, reached without any division
\* by the number of results.
C15_EmptyResultsGiveNoResultsOutcome ==
    (report # NoReport /\ evaluation_results = <<>>) =>
       report = [error |-> "No evaluation results available", divisions |-> 0]

\* generate_report has been called after a run in which every item failed
C15_Witness ==
    /\ runState.runs = 1
    /\ runState.failed = 1..NumItems
    /\ evaluation_results = <<>>
    /\ main = "none"
    /\ "error" \in DOMAIN report

\* a report with a summary has been generated from the current list
Reported == "evaluation_summary" \in DOMAIN report

\* the results whose overall score is strictly below 0.3
BelowThreshold ==
    {i \in 1..Len(evaluation_results) :
        10 * evaluation_results[i].overall_score[1]
           < 3 * evaluation_results[i].overall_score[2]}

UnansweredIsStrictCount ==
    /\ report.evaluation_summary.total_questions = Len(evaluation_results)
    /\ report.evaluation_summary.unanswered_questions = Cardinality(BelowThreshold)

\* C16 as stated: the count of results strictly below 0.3, and the
\* percentage 100 * unanswered_questions / total_questions itself.
C16_PercentageIsExactQuotient ==
    Reported =>
       /\ UnansweredIsStrictCount
       /\ SameValue(report.evaluation_summary.unanswered_percentage,
                    <<100 * Cardinality(BelowThreshold), Len(evaluation_results)>>)

\* C16, amended: the count of results strictly below 0.3, and the
\* percentage 100 * unanswered_questions / total_questions rounded to one
\* decimal place: a multiple of 0.1 at most 0.05 away from the quotient.
C16_PercentageIsRoundedQuotient ==
    Reported =>
       /\ UnansweredIsStrictCount
       /\ \E k \in 0..1000 :
             /\ SameValue(report.evaluation_summary.unanswered_percentage, <<k, 10>>)
             /\ 2 * Abs(k * Len(evaluation_results)
                        - 1000 * Cardinality(BelowThreshold))
                   <= Len(evaluation_results)

\* the report of a full run: ten results, three below 0.3 and two at 0.3
C16_Witness ==
    /\ Reported
    /\ report.evaluation_summary.total_questions = 10
    /\ report.evaluation_summary.unanswered_questions = 3
    /\ report.evaluation_summary.unanswered_percentage = <<30, 1>>
    /\ Cardinality({i \in 1..Len(evaluation_results) :
                       evaluation_results[i].overall_score = <<3, 10>>}) = 2

\* C19: within one run_evaluation call the items are gone through in list
\* order, each queried exactly once, and the results the call appends stand
\* in the order of their questions in the benchmark list.
C19_ItemsInListOrder ==
    (RunInProgress \/ RunReturned) =>
       /\ runState.queried = [k \in ProcessedItems |-> k]
       /\ \A j, k \in 1..Len(AppendedByRun) :
             j < k => ItemOf(AppendedByRun[j]) < ItemOf(AppendedByRun[k])

\* a run has returned with one item skipped between items that have results
C19_Witness ==
    /\ RunReturned
    /\ failing = {3}
    /\ runState.queried = <<1, 2, 3, 4, 5, 6, 7, 8, 9, 10>>
    /\ Len(AppendedByRun) = 9

\* C20: whatever the number of run_evaluation calls made on the evaluator,
\* a report covers the results of the last run only: at most one result per
\* benchmark question, so total_questions is at most the number of
\* benchmark items.
C20_ReportCoversOneRun ==
    Reported =>
       /\ report.evaluation_summary.total_questions <= NumItems
       /\ report.evaluation_summary.total_questions = Len(AppendedByRun)
       /\ \A j, k \in 1..Len(evaluation_results) :
             evaluation_results[j].question = evaluation_results[k].question => j = k

\* the list after a step begins with the list before it, result for result
GrowsByAppending ==
    /\ Len(evaluation_results') >= Len(evaluation_results)
    /\ SubSeq(evaluation_results', 1, Len(evaluation_results)) = evaluation_results

\* a step in which generate_report returned or save_results wrote
ReportedOrSaved ==
    \/ report' # report /\ report' # NoReport
    \/ saved' # saved /\ saved' # NoFile

\* C21: every step of the evaluator leaves the results already in the list
\* where and as they were, new results only following them, and a step in
\* which generate_report or save_results produced its output leaves the
\* list as it was.
C21_ResultsOnlyAppended ==
    [][GrowsByAppending /\ (ReportedOrSaved => UNCHANGED evaluation_results)]_vars

\* a second run has appended to the results of the first, and the list
\* has then been reported and saved
C21_Witness ==
    /\ runState.runs = 2
    /\ runState.start > 0
    /\ Len(evaluation_results) > runState.start
    /\ Reported
    /\ saved = save_results(evaluation_results)

(***************************************************************************)
(* The recommendations.                                                    *)
(***************************************************************************)
Recommended == "recommendations" \in DOMAIN report /\ averages # <<>>

\* the notes in their fixed order, the generic note last
NoteOrder ==
    <<RecEffectiveness, RecFaithfulness, RecSourceAttribution, RecPerformingWell,
      RecContinueMonitoring>>

\* which of the four threshold notes the averages call for
NoteFires ==
    <<10 * averages[1][1] < 7 * averages[1][2],
      10 * averages[2][1] < 7 * averages[2][2],
      10 * averages[3][1] < 7 * averages[3][2],
      /\ 5 * averages[1][1] >= 4 * averages[1][2]
      /\ 5 * averages[2][1] >= 4 * averages[2][2]>>

NotePosition(note) == CHOOSE n \in 1..5 : NoteOrder[n] = note

\* C17: the list holds each of the four threshold notes iff its condition
\* on the averages holds, the generic note iff none of the four holds, the
\* notes stand in the fixed order, and the list is never empty.
C17_RecommendationsFollowThresholds ==
    Recommended =>
       LET recs == report.recommendations
       IN  /\ recs # <<>>
           /\ Range(recs) \subseteq Range(NoteOrder)
           /\ \A n \in 1..4 : (NoteOrder[n] \in Range(recs)) <=> NoteFires[n]
           /\ (RecContinueMonitoring \in Range(recs))
                  <=> (\A n \in 1..4 : ~NoteFires[n])
           /\ \A j, k \in 1..Len(recs) :
                  j < k => NotePosition(recs[j]) < NotePosition(recs[k])

\* a low source attribution beside high effectiveness and faithfulness: two
\* notes, in order; and averages between the thresholds: the generic note
C17_Witness ==
    /\ Recommended
    /\ averages = << <<4, 5>>, <<1, 1>>, <<69, 100>> >>
    /\ report.recommendations = <<RecSourceAttribution, RecPerformingWell>>

InitializeFailedUninitialized ==
    /\ last.op = "initialize"
    /\ last.outcome # "ok"
    /\ ~last.preReady

\* C22: an initialize that raises at any step (corpus load, index build,
\* index load, chain wiring) on a pipeline with no QA chain leaves it
\* without one, and the query that follows fails with the not-initialized
\* error without invoking the retrieval or the generation service.
C22_FailedInitializeStaysUninitialized ==
    /\ [](InitializeFailedUninitialized => ~Ready)
    /\ [][(InitializeFailedUninitialized /\ last'.op = "query") =>
             /\ last'.outcome = "NotInitialized"
             /\ ~last'.retrieved
             /\ ~last'.generated
             /\ last'.result = <<>>]_vars

\* an initialize on an Uninitialized pipeline has opened the index and
\* raised while wiring the chain
C22_Witness ==
    /\ InitializeFailedUninitialized
    /\ last.outcome = "ChainError"
    /\ vectorstore = "Store"
    /\ index # <<>>
    /\ ~Ready

====
